---- MODULE Spec2Model ----
(***************************************************************************)
(* A model of tapalcatl-py's server.py: the tile-to-metatile addressing    *)
(* (meta_and_offset), the LFU metatile cache, the conditional S3 fetch     *)
(* (metatile_fetch), the archive extraction (extract_tile), the object key *)
(* (compute_key) and the request handler (handle_tile) that chains them,   *)
(* served one request at a time (Spec) and by two threads (SpecThreads).   *)
(*                                                                         *)
(* Python values are modelled as follows.                                  *)
(*   - an optional value (None or v) is the sequence <<>> or <<v>>;        *)
(*   - a TileRequest namedtuple is a record [z, x, y, format];             *)
(*   - a CacheInfo namedtuple is a record [last_modified, etag] of         *)
(*     optionals; a StorageResponse is a record [data, cache_info];        *)
(*   - bytes are modelled by what the code reads of them: their            *)
(*     sys.getsizeof and the zip members they hold.                        *)
(***************************************************************************)
EXTENDS Integers, Sequences, FiniteSets, TLC

\* ------------------------------------------------------------------ bounds

\* Largest requested zoom of the addressing specification.
MaxZoom == 3
\* Largest requested x and y of the addressing specification.
MaxCoord == 6
\* Largest metatile size and tile size (tiles per side) tried.
MaxSize == 8
\* The cache's byte budget, scaled (the program's is 100e6).
CacheMaxSize == 2
\* A request is admitted only while no cache entry was used this often.
MaxUses == 3

\* The pixel size of a tile of size 1.
BasePixels == 256

Requests == {"r1", "r2"}

None == <<>>
Some(v) == <<v>>
\* Python's truth value of an optional integer: None and 0 are false.
Truthy(o) == o # None /\ o[1] # 0

\* ------------------------------------------------------- integer helpers

RECURSIVE Pow2(_)
Pow2(n) == IF n <= 0 THEN 1 ELSE 2 * Pow2(n - 1)

\* a & b on non-negative integers.
RECURSIVE BitAnd(_, _)
BitAnd(a, b) ==
  IF a = 0 \/ b = 0 THEN 0
  ELSE (IF a % 2 = 1 /\ b % 2 = 1 THEN 1 ELSE 0) + 2 * BitAnd(a \div 2, b \div 2)

ShiftRight(a, n) == a \div Pow2(n)
ShiftLeft(a, n) == a * Pow2(n)

Min(a, b) == IF a <= b THEN a ELSE b

\* ------------------------------------------------------------ addressing

TileRequest(z, x, y, format) == [z |-> z, x |-> x, y |-> y, format |-> format]

is_power_of_two(num) == num # 0 /\ BitAnd(num, num - 1) = 0

\* math.log(size, 2), called on powers of two only.  The floating-point
\* result is the exact exponent for every size below 2^29, which covers
\* every size the model tries.
RECURSIVE size_to_zoom(_)
size_to_zoom(size) == IF size <= 1 THEN 0 ELSE 1 + size_to_zoom(size \div 2)

\* BadSizes without its comparison of the two zooms.
BadSizesNoCompare(meta_size, tile_size) ==
  \/ ~is_power_of_two(meta_size)
  \/ ~is_power_of_two(tile_size)

\* The three checks that raise ValueError.
BadSizes(meta_size, tile_size) ==
  \/ ~is_power_of_two(meta_size)
  \/ ~is_power_of_two(tile_size)
  \/ size_to_zoom(tile_size) > size_to_zoom(meta_size)

\* delta_z = int(meta_zoom - tile_zoom)
BaseDelta(meta_size, tile_size) == size_to_zoom(meta_size) - size_to_zoom(tile_size)

\* LowZoom with the comparison off by one.
LowZoomOffByOne(z, delta_z) == z + 1 < delta_z

\* requested_tile.z < delta_z
LowZoom(z, delta_z) == z < delta_z

\* The branch taken below the metatile's base zoom.
LowZoomResult(t) ==
  [meta |-> TileRequest(0, 0, 0, "zip"), offset |-> TileRequest(0, 0, 0, t.format)]

\* if metatile_max_detail_zoom and requested_tile.z - delta_z > metatile_max_detail_zoom
ClampApplies(z, delta_z, mdz) == Truthy(mdz) /\ z - delta_z > mdz[1]

\* ClampedDelta without the min: the whole zoom of the metatile size.
ClampedDeltaNoMin(z, mdz, meta_size) == size_to_zoom(meta_size)

\* delta_z = min(requested_tile.z - metatile_max_detail_zoom, int(meta_zoom))
ClampedDelta(z, mdz, meta_size) == Min(z - mdz[1], size_to_zoom(meta_size))

\* delta_z as it stands after the clamp, in the else branch.
EffectiveDelta(z, meta_size, tile_size, mdz) ==
  IF ClampApplies(z, BaseDelta(meta_size, tile_size), mdz)
  THEN ClampedDelta(z, mdz, meta_size)
  ELSE BaseDelta(meta_size, tile_size)

\* MetaOf with y left unshifted.
MetaOfUnshiftedY(t, delta_z) ==
  TileRequest(t.z - delta_z, ShiftRight(t.x, delta_z), t.y, "zip")

MetaOf(t, delta_z) ==
  TileRequest(t.z - delta_z, ShiftRight(t.x, delta_z), ShiftRight(t.y, delta_z), "zip")

\* OffsetOf with the metatile's x and y exchanged.
OffsetOfSwapped(t, m, delta_z) ==
  TileRequest(t.z - m.z, t.x - ShiftLeft(m.y, delta_z), t.y - ShiftLeft(m.x, delta_z),
              t.format)

\* OffsetOf shifting by the requested zoom instead of the delta.
OffsetOfMetaShift(t, m, delta_z) ==
  TileRequest(t.z - m.z, t.x - ShiftLeft(m.x, t.z), t.y - ShiftLeft(m.y, t.z), t.format)

OffsetOf(t, m, delta_z) ==
  TileRequest(t.z - m.z, t.x - ShiftLeft(m.x, delta_z), t.y - ShiftLeft(m.y, delta_z),
              t.format)

HighZoomResult(t, delta_z) ==
  [meta |-> MetaOf(t, delta_z), offset |-> OffsetOf(t, MetaOf(t, delta_z), delta_z)]

\* The whole function: a record [exc, meta, offset]; exc is "ValueError" when
\* it raises, and then meta and offset are absent (None).
meta_and_offset(requested_tile, meta_size, tile_size, metatile_max_detail_zoom) ==
  IF BadSizes(meta_size, tile_size)
  THEN [exc |-> "ValueError", meta |-> None, offset |-> None]
  ELSE LET r == IF LowZoom(requested_tile.z, BaseDelta(meta_size, tile_size))
                THEN LowZoomResult(requested_tile)
                ELSE HighZoomResult(requested_tile,
                       EffectiveDelta(requested_tile.z, meta_size, tile_size,
                                      metatile_max_detail_zoom))
       IN [exc |-> "none", meta |-> Some(r.meta), offset |-> Some(r.offset)]

\* ------------------------------------------------------------- the cache

\* cachetools.LFUCache(100e6, getsizeof=...), as a sequence of entries
\* [key, value, size, uses] in insertion order; uses is the negated value of
\* the cache's Counter for the key.

RECURSIVE SumSizes(_)
SumSizes(c) == IF c = <<>> THEN 0 ELSE Head(c).size + SumSizes(Tail(c))

\* cache.currsize
currsize(c) == SumSizes(c)

CacheKeys(c) == {c[i].key : i \in 1..Len(c)}

IndexOf(c, key) == CHOOSE i \in 1..Len(c) : c[i].key = key

RemoveAt(c, i) == SubSeq(c, 1, i - 1) \o SubSeq(c, i + 1, Len(c))

\* The member names of a complete metatile of size 2.
InMetatile ==
  {"0/0/0.mvt", "0/0/0.json", "1/0/0.mvt", "1/0/0.json", "1/0/1.mvt",
   "1/0/1.json", "1/1/0.mvt", "1/1/0.json", "1/1/1.mvt", "1/1/1.json"}

\* zipfile.ZipFile(data).infolist(), for the bodies the store can return: the
\* members of the archive, each a name and its stored bytes.
ZipMembers(data) ==
  CASE data \in {"full", "huge"} ->
         {[name |-> n, bytes |-> "tile " \o n] : n \in InMetatile}
    [] data = "sparse" -> {[name |-> "0/0/0.mvt", bytes |-> "tile 0/0/0.mvt"]}
    [] data = "deep" ->
         {[name |-> "2/1/1.json", bytes |-> "json of 2/1/1"],
          [name |-> "2/1/1.mvt", bytes |-> "mvt of 2/1/1"],
          [name |-> "1/2/1.json", bytes |-> "json of 1/2/1"],
          [name |-> "2/1/11.json", bytes |-> "json of 2/1/11"],
          [name |-> "2/11/1.json", bytes |-> "json of 2/11/1"],
          [name |-> "0/0/0.mvt", bytes |-> "mvt of 0/0/0"]}
    [] OTHER -> {}

\* Whether the archive has a member of that name.
ZipHas(data, name) == \E m \in ZipMembers(data) : m.name = name

\* ZipFile.read(name), for a name the archive has.
ZipRead(data, name) == (CHOOSE m \in ZipMembers(data) : m.name = name).bytes

\* Whether the bytes are a zip archive at all.
IsZip(data) == data \in {"full", "huge", "sparse", "deep", "empty"}

\* sys.getsizeof(i.data), in the units of CacheMaxSize.
getsizeof(value) ==
  CASE value.data = "huge" -> CacheMaxSize + 1
    [] value.data = "sparse" -> CacheMaxSize
    [] OTHER -> 1

\* lfu_get that never finds the key.
lfu_get_miss(c, key) == [value |-> None, cache |-> c]

\* lfu_setitem that stores nothing.
lfu_setitem_drop(c, key, value) == [exc |-> "none", cache |-> c]

\* lfu_get that finds only the oldest entry.
lfu_get_first(c, key) ==
  IF c # <<>> /\ c[1].key = key
  THEN [value |-> Some(c[1].value), cache |-> [c EXCEPT ![1].uses = @ + 1]]
  ELSE [value |-> None, cache |-> c]

\* cache.get(key): [value, cache]; a hit counts as a use.
lfu_get(c, key) ==
  IF key \in CacheKeys(c)
  THEN LET i == IndexOf(c, key)
       IN [value |-> Some(c[i].value),
           cache |-> [c EXCEPT ![i].uses = @ + 1]]
  ELSE [value |-> None, cache |-> c]

\* LFUCache.popitem(): drops the entry used least, the oldest of them first.
lfu_popitem(c) ==
  LET i == CHOOSE j \in 1..Len(c) :
             /\ \A k \in 1..Len(c) : c[j].uses <= c[k].uses
             /\ \A k \in 1..(j - 1) : c[k].uses > c[j].uses
  IN RemoveAt(c, i)

\* EvictFor that evicts nothing.
EvictNothing(c, size) == c

\* while self.currsize + size > maxsize: self.popitem()
RECURSIVE EvictFor(_, _)
EvictFor(c, size) ==
  IF c # <<>> /\ currsize(c) + size > CacheMaxSize
  THEN EvictFor(lfu_popitem(c), size)
  ELSE c

\* Whether Cache.__setitem__ raises ValueError("value too large").
TooLarge(size) == size > CacheMaxSize

\* Cache.__setitem__ up to the end of its eviction loop:
\* if key not in data or size[key] < size: while currsize + size > maxsize: ...
MakeRoom(c, key, size) ==
  IF key \notin CacheKeys(c) \/ c[IndexOf(c, key)].size < size
  THEN EvictFor(c, size)
  ELSE c

\* Cache.__setitem__ after its eviction loop: the entry is written and its
\* size accounted; LFUCache counts the write as a use.
PutEntry(c, key, value) ==
  IF key \in CacheKeys(c)
  THEN [c EXCEPT ![IndexOf(c, key)] =
          [key |-> key, value |-> value, size |-> getsizeof(value),
           uses |-> @.uses + 1]]
  ELSE Append(c, [key |-> key, value |-> value, size |-> getsizeof(value),
                  uses |-> 1])

\* cache[key] = value, for a value that is not too large.
StoreEntry(c, key, value) ==
  PutEntry(MakeRoom(c, key, getsizeof(value)), key, value)

\* cache[key] = value: [exc, cache].
lfu_setitem(c, key, value) ==
  IF TooLarge(getsizeof(value))
  THEN [exc |-> "ValueError", cache |-> c]
  ELSE [exc |-> "none", cache |-> StoreEntry(c, key, value)]

\* ------------------------------------------------------------ the origin

CacheInfo(last_modified, etag) == [last_modified |-> last_modified, etag |-> etag]
StorageResponse(data, cache_info) == [data |-> data, cache_info |-> cache_info]

\* What get_object can answer with: a body, its quoted ETag (a character
\* sequence) and its LastModified.
S3Objects ==
  { [Body |-> "full",   ETag |-> <<"q", "e1", "q">>, LastModified |-> 1],
    [Body |-> "sparse", ETag |-> <<"q", "e2", "q">>, LastModified |-> 2],
    [Body |-> "notzip", ETag |-> <<"q", "e2", "q">>, LastModified |-> 2],
    [Body |-> "huge",   ETag |-> <<"q", "e1", "q">>, LastModified |-> 1] }

\* The error codes a ClientError can carry.
ErrorCodes == {"304", "NoSuchKey", "AccessDenied"}

\* quoteless_etag = response['ETag'][1:-1]
StripQuotes(etag) == SubSeq(etag, 2, Len(etag) - 1)

\* The StorageResponse built from a successful get_object.
ResultOf(response) ==
  StorageResponse(response.Body,
                  CacheInfo(Some(response.LastModified), StripQuotes(response.ETag)))

\* The conditional parameters of the read: a header that is None is left out.
GetParams(cache_info) ==
  (IF cache_info.last_modified # None THEN {"IfModifiedSince"} ELSE {})
  \cup (IF cache_info.etag # None THEN {"IfNoneMatch"} ELSE {})

\* ExceptionFor that does not know NoSuchKey.
ExceptionForNoKey(error_code) ==
  CASE error_code = "304" -> "MetatileNotModifiedException"
    [] OTHER -> "UnknownMetatileException"

\* except botocore.exceptions.ClientError: the exception raised per code.
ExceptionFor(error_code) ==
  CASE error_code = "304" -> "MetatileNotModifiedException"
    [] error_code = "NoSuchKey" -> "MetatileNotFoundException"
    [] OTHER -> "UnknownMetatileException"

\* handle_tile's except clauses; an exception it does not catch leaves the
\* handler and the framework answers 500.
StatusFor(exc) ==
  CASE exc = "MetatileNotFoundException" -> 404
    [] exc = "TileNotFoundInMetatile" -> 404
    [] exc = "MetatileNotModifiedException" -> 304
    [] exc = "UnknownMetatileException" -> 500
    [] OTHER -> 500

\* The text handle_tile answers a failure with; the framework's own page for
\* an exception the handler does not catch.
BodyFor(exc) ==
  CASE exc = "MetatileNotFoundException" -> "Metatile not found"
    [] exc = "TileNotFoundInMetatile" -> "Tile not found"
    [] exc = "MetatileNotModifiedException" -> ""
    [] exc = "UnknownMetatileException" -> "Metatile fetch problem"
    [] OTHER -> "Internal Server Error"

\* OffsetKey with x and y in the wrong order.
OffsetKeySwapped(offset) ==
  ToString(offset.z) \o "/" \o ToString(offset.y) \o "/" \o ToString(offset.x)
    \o "." \o offset.format

\* offset_key of extract_tile: '{zoom}/{x}/{y}.{fmt}'.
OffsetKey(offset) ==
  ToString(offset.z) \o "/" \o ToString(offset.x) \o "/" \o ToString(offset.y)
    \o "." \o offset.format

\* extract_tile: [exc, data].
extract_tile(metatile_bytes, offset) ==
  IF ~IsZip(metatile_bytes)
  THEN [exc |-> "BadZipFile", data |-> None]
  ELSE IF ZipHas(metatile_bytes, OffsetKey(offset))
       THEN [exc |-> "none", data |-> Some(ZipRead(metatile_bytes, OffsetKey(offset)))]
       ELSE [exc |-> "TileNotFoundInMetatile", data |-> None]

\* TileResponse with the freshness the client sent.
TileResponseFromRequest(tile_data, metatile_data, cache_info) ==
  StorageResponse(tile_data, cache_info)

\* The StorageResponse retrieve_tile returns: the tile's bytes with the
\* metatile's last_modified and etag.
TileResponse(tile_data, metatile_data, cache_info) ==
  StorageResponse(tile_data,
                  CacheInfo(metatile_data.cache_info.last_modified,
                            metatile_data.cache_info.etag))

\* ----------------------------------------------------------------- state

VARIABLES
  config,      \* app.config: METATILE_SIZE and METATILE_MAX_DETAIL_ZOOM
  call,        \* the last call of meta_and_offset: its arguments and result
  lfu,         \* app.extensions['metatile_lfu']
  pc,          \* where each request stands in handle_tile
  local,       \* each request's meta, offset, request_cache_info, metatile_data
  outcome,     \* each request's end: the exception, the status, the response
  obs          \* what each request has done so far: lookups, fetches, writes

vars == <<config, call, lfu, pc, local, outcome, obs>>

Formats == {"mvt", "json"}
\* METATILE_MAX_DETAIL_ZOOM: unset, 0, a small value, and one above every zoom.
DetailZooms == {None, Some(0), Some(1), Some(12)}
\* The requested tiles of the addressing specification.
Tiles ==
  ((0..MaxZoom) \X (0..MaxCoord) \X (0..MaxCoord)) \cup {<<5, 10, 12>>}

NoCall == [done |-> FALSE]
NoLocal == [set |-> FALSE]
NoOutcome == [exc |-> "pending"]
NoObs == [lookups |-> 0, present |-> FALSE, hit |-> FALSE, fetches |-> 0,
          response |-> None, error_code |-> None, touched |-> FALSE,
          extracted |-> FALSE]

InitRequests ==
  /\ lfu = <<>>
  /\ pc = [r \in Requests |-> "idle"]
  /\ local = [r \in Requests |-> NoLocal]
  /\ outcome = [r \in Requests |-> NoOutcome]
  /\ obs = [r \in Requests |-> NoObs]

InitResolve ==
  /\ config \in [METATILE_SIZE : 0..MaxSize, METATILE_MAX_DETAIL_ZOOM : DetailZooms]
  /\ call = NoCall
  /\ InitRequests

\* One call of meta_and_offset with the configured sizes.
CallResolve(t, fmt, tile_size) ==
  /\ call = NoCall
  /\ call' = [done |-> TRUE,
              tile |-> TileRequest(t[1], t[2], t[3], fmt),
              tile_size |-> tile_size,
              result |-> meta_and_offset(TileRequest(t[1], t[2], t[3], fmt),
                                         config.METATILE_SIZE, tile_size,
                                         config.METATILE_MAX_DETAIL_ZOOM)]
  /\ UNCHANGED <<config, lfu, pc, local, outcome, obs>>

NextResolve ==
  \E t \in Tiles, fmt \in Formats, tile_size \in 0..MaxSize : CallResolve(t, fmt, tile_size)

SpecResolve == InitResolve /\ [][NextResolve]_vars

\* ------------------------------------------------------------ the service

\* The configurations, tiles, pixel sizes and conditional headers the service
\* specification tries.
ServiceConfigs ==
  [METATILE_SIZE : {2, 3}, METATILE_MAX_DETAIL_ZOOM : {None, Some(1)}]
ServiceTiles == {<<0, 0, 0>>, <<1, 1, 0>>, <<2, 1, 3>>}
PixelSizes == {None, Some(512), Some(768), Some(1024), Some(300)}
Headers == {CacheInfo(None, None), CacheInfo(None, Some("e1")),
            CacheInfo(Some(1), Some("e1"))}

Init ==
  /\ config \in ServiceConfigs
  /\ call = NoCall
  /\ InitRequests

Finish(r, exc, raised_by, data, cache_info) ==
  /\ pc' = [pc EXCEPT ![r] = "done"]
  /\ outcome' = [outcome EXCEPT ![r] =
       [exc |-> exc, raised_by |-> raised_by,
        status |-> IF exc = "none" THEN 200 ELSE StatusFor(exc),
        text |-> IF exc = "none" THEN "" ELSE BodyFor(exc),
        data |-> data, cache_info |-> cache_info]]

\* tile_pixel_size = tile_pixel_size or 256
PixelSizeOr(tile_pixel_size) ==
  IF tile_pixel_size # None /\ tile_pixel_size[1] # 0 THEN tile_pixel_size[1] ELSE BasePixels

\* The handler's locals once the tile size is known.
Locals(tile_size, res, headers) ==
  [set |-> TRUE, tile_size |-> tile_size, meta |-> res.meta, offset |-> res.offset,
   cache_info |-> headers, metatile_data |-> None]

\* handle_tile up to the call of retrieve_tile: the tile size, the address,
\* the conditional headers.
HandleTile(r, t, fmt, tile_pixel_size, headers) ==
  /\ pc[r] = "idle"
  /\ \A i \in 1..Len(lfu) : lfu[i].uses < MaxUses
  /\ LET px == PixelSizeOr(tile_pixel_size)
         requested_tile == TileRequest(t[1], t[2], t[3], fmt)
     IN IF px % BasePixels # 0
        THEN /\ pc' = [pc EXCEPT ![r] = "done"]
             /\ outcome' = [outcome EXCEPT ![r] =
                  [exc |-> "abort", raised_by |-> "handle_tile", status |-> 400,
                   text |-> "Invalid tile size", data |-> None, cache_info |-> None]]
             /\ UNCHANGED local
        ELSE LET res == meta_and_offset(requested_tile, config.METATILE_SIZE,
                                        px \div BasePixels,
                                        config.METATILE_MAX_DETAIL_ZOOM)
             IN /\ local' = [local EXCEPT ![r] = Locals(px \div BasePixels, res, headers)]
                /\ IF res.exc # "none"
                   THEN Finish(r, res.exc, "meta_and_offset", None, None)
                   ELSE /\ pc' = [pc EXCEPT ![r] = "cache_get"]
                        /\ UNCHANGED outcome
  /\ UNCHANGED <<config, call, lfu, obs>>

\* metatile_fetch: cached = cache.get(meta); if cached: return cached
CacheGet(r) ==
  /\ pc[r] = "cache_get"
  /\ LET got == lfu_get(lfu, local[r].meta[1])
     IN /\ lfu' = got.cache
        /\ obs' = [obs EXCEPT ![r].lookups = @ + 1,
                              ![r].present = local[r].meta[1] \in CacheKeys(lfu),
                              ![r].hit = got.value # None,
                              ![r].touched = @ \/ got.cache # lfu]
        /\ IF got.value # None
           THEN /\ local' = [local EXCEPT ![r].metatile_data = got.value]
                /\ pc' = [pc EXCEPT ![r] = "extract"]
           ELSE /\ pc' = [pc EXCEPT ![r] = "get_object"]
                /\ UNCHANGED local
  /\ UNCHANGED <<config, call, outcome>>

\* get_object answers with an object.
FetchOk(r, response) ==
  /\ pc[r] = "get_object"
  /\ obs' = [obs EXCEPT ![r].fetches = @ + 1, ![r].response = Some(response)]
  /\ local' = [local EXCEPT ![r].metatile_data = Some(ResultOf(response))]
  /\ pc' = [pc EXCEPT ![r] = "cache_set"]
  /\ UNCHANGED <<config, call, lfu, outcome>>

\* get_object raises ClientError; the store answers 304 only to a
\* conditional read.
FetchError(r, error_code) ==
  /\ pc[r] = "get_object"
  /\ error_code = "304" => GetParams(local[r].cache_info) # {}
  /\ obs' = [obs EXCEPT ![r].fetches = @ + 1, ![r].error_code = Some(error_code)]
  /\ Finish(r, ExceptionFor(error_code), "metatile_fetch", None, None)
  /\ UNCHANGED <<config, call, lfu, local>>

\* cache[meta] = result
CacheSet(r) ==
  /\ pc[r] = "cache_set"
  /\ LET put == lfu_setitem(lfu, local[r].meta[1], local[r].metatile_data[1])
     IN /\ lfu' = put.cache
        /\ obs' = [obs EXCEPT ![r].touched = @ \/ put.cache # lfu]
        /\ IF put.exc # "none"
           THEN Finish(r, put.exc, "metatile_fetch", None, None)
           ELSE /\ pc' = [pc EXCEPT ![r] = "extract"]
                /\ UNCHANGED outcome
  /\ UNCHANGED <<config, call, local>>

\* retrieve_tile after metatile_fetch, and the response handle_tile builds.
Extract(r) ==
  /\ pc[r] = "extract"
  /\ LET metatile_data == local[r].metatile_data[1]
         tile == extract_tile(metatile_data.data, local[r].offset[1])
     IN IF tile.exc # "none"
        THEN Finish(r, tile.exc, "extract_tile", None, None)
        ELSE LET storage_result ==
                   TileResponse(tile.data, metatile_data, local[r].cache_info)
             IN Finish(r, "none", "none", storage_result.data,
                       Some(storage_result.cache_info))
  /\ obs' = [obs EXCEPT ![r].extracted = TRUE]
  /\ UNCHANGED <<config, call, lfu, local>>

\* The response is sent; the worker takes the next request.
Return(r) ==
  /\ pc[r] = "done"
  /\ pc' = [pc EXCEPT ![r] = "idle"]
  /\ local' = [local EXCEPT ![r] = NoLocal]
  /\ outcome' = [outcome EXCEPT ![r] = NoOutcome]
  /\ obs' = [obs EXCEPT ![r] = NoObs]
  /\ UNCHANGED <<config, call, lfu>>

\* One worker serving one request after the other.
Workers == {"r1"}

Receive ==
  \E r \in Workers, t \in ServiceTiles, fmt \in Formats,
     tile_pixel_size \in PixelSizes, headers \in Headers :
    HandleTile(r, t, fmt, tile_pixel_size, headers)

Lookup == \E r \in Workers : CacheGet(r)

OriginOk == \E r \in Workers, response \in S3Objects : FetchOk(r, response)

OriginError == \E r \in Workers, error_code \in ErrorCodes : FetchError(r, error_code)

Store == \E r \in Workers : CacheSet(r)

Unzip == \E r \in Workers : Extract(r)

Respond == \E r \in Workers : Return(r)

Next == Receive \/ Lookup \/ OriginOk \/ OriginError \/ Store \/ Unzip \/ Respond

Spec == Init /\ [][Next]_vars

\* ------------------------------------------------- concurrent requests

\* cache[meta] = result, first half: the size check and the eviction loop of
\* Cache.__setitem__. Nothing in the cache or around line 199 holds a lock,
\* so another request may run before the entry is written.
SetEvict(r) ==
  /\ pc[r] = "cache_set"
  /\ LET key == local[r].meta[1]
         size == getsizeof(local[r].metatile_data[1])
     IN IF TooLarge(size)
        THEN /\ Finish(r, "ValueError", "metatile_fetch", None, None)
             /\ UNCHANGED <<lfu, obs>>
        ELSE /\ lfu' = MakeRoom(lfu, key, size)
             /\ obs' = [obs EXCEPT ![r].touched = @ \/ lfu' # lfu]
             /\ pc' = [pc EXCEPT ![r] = "set_store"]
             /\ UNCHANGED outcome
  /\ UNCHANGED <<config, call, local>>

\* cache[meta] = result, second half: the entry is written and accounted.
SetStore(r) ==
  /\ pc[r] = "set_store"
  /\ lfu' = PutEntry(lfu, local[r].meta[1], local[r].metatile_data[1])
  /\ obs' = [obs EXCEPT ![r].touched = TRUE]
  /\ pc' = [pc EXCEPT ![r] = "extract"]
  /\ UNCHANGED <<config, call, local, outcome>>

\* The configuration, objects and error codes of the concurrent requests.
ThreadConfigs == [METATILE_SIZE : {2}, METATILE_MAX_DETAIL_ZOOM : {None}]
ThreadObjects == {o \in S3Objects : o.Body \in {"full", "sparse", "huge"}}
ThreadErrors == {"NoSuchKey"}

InitThreads ==
  /\ config \in ThreadConfigs
  /\ call = NoCall
  /\ InitRequests

\* Two requests served at once, each by a thread of its own.
ThreadReceive ==
  \E r \in Requests, t \in ServiceTiles :
    HandleTile(r, t, "mvt", None, CacheInfo(None, None))

ThreadLookup == \E r \in Requests : CacheGet(r)

ThreadOriginOk == \E r \in Requests, response \in ThreadObjects : FetchOk(r, response)

ThreadOriginError ==
  \E r \in Requests, error_code \in ThreadErrors : FetchError(r, error_code)

ThreadEvict == \E r \in Requests : SetEvict(r)

ThreadStore == \E r \in Requests : SetStore(r)

ThreadUnzip == \E r \in Requests : Extract(r)

ThreadRespond == \E r \in Requests : Return(r)

NextThreads ==
  \/ ThreadReceive \/ ThreadLookup \/ ThreadOriginOk \/ ThreadOriginError
  \/ ThreadEvict \/ ThreadStore \/ ThreadUnzip \/ ThreadRespond

SpecThreads == InitThreads /\ [][NextThreads]_vars

\* ---------------------------------------------------------- object keys

\* hashlib.md5(k.encode('utf8')).hexdigest(): 32 hexadecimal characters fixed
\* by k. Two digests stand for md5's values.
HexDigest(k) ==
  IF Len(k) % 2 = 0
  THEN "d41d8cd98f00b204e9800998ecf8427e"
  ELSE "0cc175b9c0f1b6a831c399e269772661"

\* HashOf that keeps six characters of the digest.
HashOfSix(k) == SubSeq(HexDigest(k), 1, 6)

\* h = hashlib.md5(k.encode('utf8')).hexdigest()[:5]
HashOf(k) == SubSeq(HexDigest(k), 1, 5)

\* compute_key(prefix, layer, meta_tile, include_hash); prefix may be None.
compute_key(prefix, layer, meta_tile, include_hash) ==
  LET k0 == "/" \o layer \o "/" \o ToString(meta_tile.z) \o "/"
              \o ToString(meta_tile.x) \o "/" \o ToString(meta_tile.y)
              \o "." \o meta_tile.format
      k1 == IF include_hash THEN "/" \o HashOf(k0) \o k0 ELSE k0
      k2 == IF prefix # None /\ prefix[1] # "" THEN "/" \o prefix[1] \o k1 ELSE k1
  IN SubSeq(k2, 2, Len(k2))

\* The prefixes, layers and metatiles the key specification tries.
KeyPrefixes == {None, Some(""), Some("t"), Some("a/b")}
KeyLayers == {"all", "water"}
KeyCoords == {0, 1, 11}
KeyMetas ==
  {TileRequest(z, x, y, "zip") : z \in 0..MaxZoom, x \in KeyCoords, y \in KeyCoords}

InitKey ==
  /\ config \in ServiceConfigs
  /\ call = NoCall
  /\ InitRequests

\* One call of compute_key.
CallKey(prefix, layer, meta_tile, include_hash) ==
  /\ call = NoCall
  /\ call' = [done |-> TRUE, prefix |-> prefix, layer |-> layer,
              meta_tile |-> meta_tile, include_hash |-> include_hash,
              key |-> compute_key(prefix, layer, meta_tile, include_hash)]
  /\ UNCHANGED <<config, lfu, pc, local, outcome, obs>>

NextKey ==
  \E prefix \in KeyPrefixes, layer \in KeyLayers, meta_tile \in KeyMetas,
     include_hash \in BOOLEAN :
    CallKey(prefix, layer, meta_tile, include_hash)

SpecKey == InitKey /\ [][NextKey]_vars

\* ------------------------------------------------------------ extraction

\* The bodies and the offsets the extraction specification tries.
ExtractBodies == {"full", "sparse", "deep", "empty", "notzip"}
ExtractCoords == {0, 1, 2, 11}
ExtractOffsets ==
  {TileRequest(z, x, y, fmt) :
     z \in 0..MaxZoom, x \in ExtractCoords, y \in ExtractCoords, fmt \in Formats}

InitExtract ==
  /\ config \in ServiceConfigs
  /\ call = NoCall
  /\ InitRequests

\* One call of extract_tile.
CallExtract(metatile_bytes, offset) ==
  /\ call = NoCall
  /\ call' = [done |-> TRUE, metatile_bytes |-> metatile_bytes, offset |-> offset,
              result |-> extract_tile(metatile_bytes, offset)]
  /\ UNCHANGED <<config, lfu, pc, local, outcome, obs>>

NextExtract ==
  \E metatile_bytes \in ExtractBodies, offset \in ExtractOffsets :
    CallExtract(metatile_bytes, offset)

SpecExtract == InitExtract /\ [][NextExtract]_vars

\* ---------------------------------------------------------------- claims

\* The quantities of the addressing contract, stated without the code's
\* operators.
IsPow2(n) == \E k \in 0..n : Pow2(k) = n
Exponent(n) == CHOOSE k \in 0..n : Pow2(k) = n
ValidSizes(meta_size, tile_size) ==
  IsPow2(meta_size) /\ IsPow2(tile_size) /\ tile_size <= meta_size
\* D = log2(metatileSize) - log2(tileSize)
ContractDelta(meta_size, tile_size) == Exponent(meta_size) - Exponent(tile_size)
\* The delta of step 3: clamped when maxDetailZoom is set and zoom - D exceeds it.
ContractClamped(z, meta_size, tile_size, mdz) ==
  IF mdz # None /\ z - ContractDelta(meta_size, tile_size) > mdz[1]
  THEN Min(z - mdz[1], Exponent(meta_size))
  ELSE ContractDelta(meta_size, tile_size)

CallValid == call.done /\ ValidSizes(config.METATILE_SIZE, call.tile_size)
CallD == ContractDelta(config.METATILE_SIZE, call.tile_size)
CallMdz == config.METATILE_MAX_DETAIL_ZOOM
CallMeta == call.result.meta[1]
CallOffset == call.result.offset[1]

\* C1: with valid sizes, a request whose zoom is below D resolves to the root
\* metatile (0,0,0,"zip") and the offset (0,0,0,requested format), whatever
\* its x and y.
C1_LowZoomRoot ==
  (CallValid /\ call.tile.z < CallD)
    => /\ call.result.exc = "none"
       /\ CallMeta = TileRequest(0, 0, 0, "zip")
       /\ CallOffset = TileRequest(0, 0, 0, call.tile.format)

C1_Witness ==
  /\ CallValid /\ call.tile.z < CallD
  /\ call.tile.x > 0 /\ call.tile.y > 0 /\ call.tile.z > 0
  /\ CallMdz # None
  /\ CallMeta = TileRequest(0, 0, 0, "zip")

\* C2: with valid sizes, zoom >= D and no clamp (maxDetailZoom unset or
\* zoom - D <= maxDetailZoom), meta = (zoom - D, x >> D, y >> D, "zip") and
\* offset = (D, x - ((x >> D) << D), y - ((y >> D) << D), format); and
\* metatileSize 8, tileSize 1, maxDetailZoom 12, request (5,10,12,mvt) gives
\* meta (2,1,1,zip), offset (3,2,4,mvt).
C2_NormalCase ==
  /\ (CallValid /\ call.tile.z >= CallD
        /\ (CallMdz = None \/ call.tile.z - CallD <= CallMdz[1]))
       => /\ call.result.exc = "none"
          /\ CallMeta = TileRequest(call.tile.z - CallD,
                                    call.tile.x \div Pow2(CallD),
                                    call.tile.y \div Pow2(CallD), "zip")
          /\ CallOffset = TileRequest(CallD,
               call.tile.x - (call.tile.x \div Pow2(CallD)) * Pow2(CallD),
               call.tile.y - (call.tile.y \div Pow2(CallD)) * Pow2(CallD),
               call.tile.format)
  /\ (call.done /\ config.METATILE_SIZE = 8 /\ call.tile_size = 1
        /\ CallMdz = Some(12) /\ call.tile = TileRequest(5, 10, 12, "mvt"))
       => /\ CallMeta = TileRequest(2, 1, 1, "zip")
          /\ CallOffset = TileRequest(3, 2, 4, "mvt")

C2_Witness ==
  /\ call.done /\ config.METATILE_SIZE = 8 /\ call.tile_size = 1
  /\ CallMdz = Some(12) /\ call.tile = TileRequest(5, 10, 12, "mvt")
  /\ CallMeta = TileRequest(2, 1, 1, "zip")
  /\ CallOffset = TileRequest(3, 2, 4, "mvt")

\* C3: whenever maxDetailZoom is set (any value >= 0, 0 included), zoom >= D
\* and zoom - D > maxDetailZoom, the resolution uses
\* D' = min(zoom - maxDetailZoom, log2(metatileSize)):
\* meta = (zoom - D', x >> D', y >> D', "zip") and offset.zoom = D'.
C3_ClampWheneverSet ==
  (CallValid /\ CallMdz # None /\ call.tile.z >= CallD
     /\ call.tile.z - CallD > CallMdz[1])
    => LET d == Min(call.tile.z - CallMdz[1], Exponent(config.METATILE_SIZE))
       IN /\ call.result.exc = "none"
          /\ CallMeta = TileRequest(call.tile.z - d, call.tile.x \div Pow2(d),
                                    call.tile.y \div Pow2(d), "zip")
          /\ CallOffset.z = d

\* C4: with valid sizes and zoom >= D, the request is recovered from the
\* result: zoom = meta.zoom + offset.zoom, x = (meta.x << d) + offset.x,
\* y = (meta.y << d) + offset.y, d being the delta the resolution used, which
\* the result carries as offset.zoom.
C4_RoundTrip ==
  (CallValid /\ call.tile.z >= CallD)
    => /\ call.result.exc = "none"
       /\ call.tile.z = CallMeta.z + CallOffset.z
       /\ call.tile.x = CallMeta.x * Pow2(CallOffset.z) + CallOffset.x
       /\ call.tile.y = CallMeta.y * Pow2(CallOffset.z) + CallOffset.y
       /\ \/ CallOffset.z = CallD
          \/ /\ CallMdz # None
             /\ CallOffset.z = Min(call.tile.z - CallMdz[1], Exponent(config.METATILE_SIZE))

C4_Witness ==
  /\ CallValid /\ call.tile.z >= CallD
  /\ CallMdz # None /\ CallOffset.z > CallD
  /\ CallMeta.x > 0 /\ CallOffset.x > 0 /\ CallOffset.y > 0
  /\ CallOffset.x # CallOffset.y /\ CallMeta.x # CallMeta.y

\* C5: every result has 0 <= offset.zoom <= D and offset.x, offset.y in
\* [0, 2^offset.zoom), D being the delta of the resolution (clamped where the
\* clamp applies); and the call leaves the cache and every request alone.
C5_OffsetInRange ==
  (CallValid)
    => /\ call.result.exc = "none"
       /\ 0 <= CallOffset.z
       /\ CallOffset.z <= ContractClamped(call.tile.z, config.METATILE_SIZE,
                                          call.tile_size, CallMdz)
       /\ 0 <= CallOffset.x /\ CallOffset.x < Pow2(CallOffset.z)
       /\ 0 <= CallOffset.y /\ CallOffset.y < Pow2(CallOffset.z)
       /\ lfu = <<>>
       /\ \A r \in Requests : pc[r] = "idle" /\ obs[r] = NoObs

C5_Witness ==
  /\ CallValid /\ call.tile.z >= CallD
  /\ CallMdz # None /\ call.tile.z - CallD > CallMdz[1]
  /\ CallOffset.z > CallD
  /\ CallMeta.x > 0 /\ CallMeta.y > 0
  /\ CallOffset.x = Pow2(CallOffset.z) - 1

\* The typed failures of a tile request.
TypedFailures ==
  {"MetatileNotModifiedException", "MetatileNotFoundException",
   "UnknownMetatileException", "TileNotFoundInMetatile"}

\* C6: a request whose metatile size or tile size is not a power of two, or
\* whose tile size exceeds the metatile size, ends in the configuration error
\* with no coordinates, and has made no cache lookup, no fetch and no cache
\* write.
C6_BadSizesFailEarly ==
  \A r \in Requests :
    (local[r].set /\ ~ValidSizes(config.METATILE_SIZE, local[r].tile_size))
      => /\ pc[r] = "done"
         /\ outcome[r].exc = "ValueError"
         /\ outcome[r].raised_by = "meta_and_offset"
         /\ local[r].meta = None /\ local[r].offset = None
         /\ outcome[r].data = None
         /\ obs[r].lookups = 0 /\ obs[r].fetches = 0
         /\ ~obs[r].touched /\ ~obs[r].extracted

C6_Witness ==
  \E r \in Requests :
    /\ local[r].set /\ IsPow2(config.METATILE_SIZE)
    /\ local[r].tile_size > config.METATILE_SIZE /\ IsPow2(local[r].tile_size)
    /\ outcome[r].exc = "ValueError"
    /\ lfu # <<>>

\* C7: a request whose metatile coordinate is in the cache when it looks it up
\* is served from that entry and fetches nothing from the origin, whatever its
\* leaf tile, tile size and conditional headers.
C7_HitNeverFetches ==
  \A r \in Requests :
    obs[r].present
      => /\ obs[r].hit
         /\ obs[r].fetches = 0
         /\ obs[r].error_code = None
         /\ pc[r] \in {"extract", "done"}
         /\ local[r].meta[1] \in CacheKeys(lfu)
         /\ local[r].metatile_data = Some(lfu[IndexOf(lfu, local[r].meta[1])].value)

C7_Witness ==
  \E r \in Requests :
    /\ obs[r].present /\ pc[r] = "done" /\ outcome[r].exc = "none"
    /\ obs[r].fetches = 0
    /\ local[r].tile_size = 2
    /\ local[r].cache_info.etag = outcome[r].cache_info[1].etag
    /\ Len(lfu) = 2

\* C8: the sizes of the entries the cache holds never add up to more than its
\* budget; an entry larger than the whole budget is rejected and leaves the
\* cache as it was.
C8_CacheWithinBudget ==
  /\ currsize(lfu) <= CacheMaxSize
  /\ \A i \in 1..Len(lfu) : lfu[i].size = getsizeof(lfu[i].value) /\ lfu[i].size >= 1
  /\ \A i, j \in 1..Len(lfu) : lfu[i].key = lfu[j].key => i = j
  /\ \A r \in Requests :
       (pc[r] = "done" /\ local[r].set /\ local[r].metatile_data # None
          /\ getsizeof(local[r].metatile_data[1]) > CacheMaxSize)
         => outcome[r].exc = "ValueError" /\ ~obs[r].touched

C8_Witness ==
  \E r \in Requests :
    /\ pc[r] = "done" /\ local[r].set /\ local[r].metatile_data # None
    /\ getsizeof(local[r].metatile_data[1]) > CacheMaxSize
    /\ outcome[r].exc = "ValueError"
    /\ currsize(lfu) = CacheMaxSize

\* C9: on a cache miss the origin's error code decides the failure: "304"
\* gives NotModified, "NoSuchKey" gives MetatileNotFound, any other code gives
\* FetchError; nothing is extracted and the request leaves the cache as it
\* found it.
C9_ErrorCodeDecidesFailure ==
  \A r \in Requests :
    obs[r].error_code # None
      => /\ pc[r] = "done"
         /\ obs[r].error_code[1] = "304"
              => outcome[r].exc = "MetatileNotModifiedException"
         /\ obs[r].error_code[1] = "NoSuchKey"
              => outcome[r].exc = "MetatileNotFoundException"
         /\ obs[r].error_code[1] \notin {"304", "NoSuchKey"}
              => outcome[r].exc = "UnknownMetatileException"
         /\ ~obs[r].hit /\ ~obs[r].extracted /\ ~obs[r].touched
         /\ outcome[r].data = None
         /\ local[r].meta[1] \notin CacheKeys(lfu)

C9_Witness ==
  \E r \in Requests :
    /\ obs[r].error_code = Some("NoSuchKey")
    /\ outcome[r].exc = "MetatileNotFoundException"
    /\ lfu # <<>>

\* C10: every request that passes address resolution ends either in success,
\* with the tile's bytes and complete freshness info, or in one of the typed
\* failures, whatever the size and content of the fetched object.
C10_OnlyTypedOutcomes ==
  \A r \in Requests :
    (pc[r] = "done" /\ local[r].set /\ local[r].meta # None)
      => \/ /\ outcome[r].exc = "none"
            /\ outcome[r].data # None
            /\ outcome[r].cache_info # None
            /\ outcome[r].cache_info[1].etag # None
            /\ outcome[r].cache_info[1].last_modified # None
         \/ outcome[r].exc \in TypedFailures

\* C11: a request whose metatile is in the cache when it looks it up never
\* ends in NotModified, whatever conditional headers it carries, the cached
\* entry's own etag and last-modified included: it goes on to extraction with
\* the cached object.
C11_HitNeverNotModified ==
  \A r \in Requests :
    obs[r].present
      => /\ pc[r] \in {"extract", "done"}
         /\ local[r].metatile_data # None
         /\ pc[r] = "done"
              => /\ obs[r].extracted
                 /\ outcome[r].exc # "MetatileNotModifiedException"
                 /\ outcome[r].status # 304
                 /\ outcome[r].raised_by \in {"none", "extract_tile"}

C11_Witness ==
  \E r \in Requests :
    /\ obs[r].present /\ pc[r] = "done"
    /\ local[r].cache_info.etag # None /\ local[r].cache_info.last_modified # None
    /\ local[r].cache_info = local[r].metatile_data[1].cache_info
    /\ outcome[r].status = 200

\* C12: a successful result carries the last-modified and the etag of the
\* metatile object it was extracted from: the cache entry's on a hit, the
\* fetched object's on a miss; the client's own values are not used.
C12_FreshnessOfMetatile ==
  \A r \in Requests :
    (pc[r] = "done" /\ outcome[r].exc = "none")
      => /\ outcome[r].cache_info = Some(local[r].metatile_data[1].cache_info)
         /\ obs[r].hit
              => /\ local[r].meta[1] \in CacheKeys(lfu)
                 /\ outcome[r].cache_info =
                      Some(lfu[IndexOf(lfu, local[r].meta[1])].value.cache_info)
         /\ ~obs[r].hit
              => /\ obs[r].response # None
                 /\ outcome[r].cache_info[1].last_modified
                      = Some(obs[r].response[1].LastModified)
                 /\ outcome[r].cache_info[1].etag = <<obs[r].response[1].ETag[2]>>

C12_Witness ==
  \E r \in Requests :
    /\ pc[r] = "done" /\ outcome[r].exc = "none" /\ ~obs[r].hit
    /\ local[r].cache_info = CacheInfo(Some(1), Some("e1"))
    /\ outcome[r].cache_info = Some(CacheInfo(Some(2), Some("e2")))

\* The entry name "<zoom>/<x>/<y>.<format>" of an offset.
EntryName(o) ==
  ToString(o.z) \o "/" \o ToString(o.x) \o "/" \o ToString(o.y) \o "." \o o.format

\* C13: extracting a tile from an archive returns exactly the stored bytes of
\* the entry named "<zoom>/<x>/<y>.<format>" if the archive has it, and fails
\* with TileNotFoundInMetatile if it has not; it never returns another entry's
\* bytes. The entry "2/1/1.json" is the one read for offset (2, 1, 1, json).
C13_ExtractNamedEntry ==
  (call.done /\ IsZip(call.metatile_bytes))
    => LET named == {m \in ZipMembers(call.metatile_bytes) :
                       m.name = EntryName(call.offset)}
       IN /\ named # {}
               => /\ call.result.exc = "none"
                  /\ \E m \in named : call.result.data = Some(m.bytes)
          /\ named = {}
               => /\ call.result.exc = "TileNotFoundInMetatile"
                  /\ call.result.data = None
          /\ (call.metatile_bytes = "deep"
                /\ call.offset = TileRequest(2, 1, 1, "json"))
               => call.result.data = Some("json of 2/1/1")

C13_Witness ==
  /\ call.done
  /\ call.metatile_bytes = "deep"
  /\ call.offset = TileRequest(2, 11, 1, "json")
  /\ call.result.data = Some("json of 2/11/1")

\* Whether a request is between the two halves of cache[meta] = result.
InSetItem(r) == pc[r] = "set_store"

\* C14: under every interleaving of the cache steps of concurrent requests
\* the cache keeps its byte budget. (The recorded total is the sum of the
\* sizes of the entries held, as currsize computes it.)
C14_BudgetUnderConcurrency ==
  /\ currsize(lfu) = SumSizes(lfu)
  /\ (\A r \in Requests : ~InSetItem(r)) => currsize(lfu) <= CacheMaxSize

\* Two requests that missed the cache for the same metatile, fetched an
\* object each and have come to their end.
BothMissed(r1, r2) ==
  /\ r1 # r2
  /\ pc[r1] = "done" /\ pc[r2] = "done"
  /\ local[r1].set /\ local[r2].set
  /\ local[r1].meta # None /\ local[r1].meta = local[r2].meta
  /\ obs[r1].lookups = 1 /\ ~obs[r1].hit /\ obs[r1].response # None
  /\ obs[r2].lookups = 1 /\ ~obs[r2].hit /\ obs[r2].response # None

\* C15: two concurrent requests that both miss the cache for the same metatile
\* each fetch the object, each write the cache under the metatile's key; the
\* cache then holds one entry for the key, the last write, and each request
\* completes with the object it fetched itself.
C15_NoDeduplication ==
  \A r1, r2 \in Requests :
    BothMissed(r1, r2)
      => /\ obs[r1].fetches = 1 /\ obs[r2].fetches = 1
         /\ obs[r1].touched /\ obs[r2].touched
         /\ Cardinality({i \in 1..Len(lfu) : lfu[i].key = local[r1].meta[1]}) = 1
         /\ lfu[IndexOf(lfu, local[r1].meta[1])].value
              \in {local[r1].metatile_data[1], local[r2].metatile_data[1]}
         /\ \A r \in {r1, r2} :
              /\ local[r].metatile_data = Some(ResultOf(obs[r].response[1]))
              /\ obs[r].extracted

\* The number of path segments of a key.
Segments(k) == 1 + Cardinality({i \in 1..Len(k) : SubSeq(k, i, i) = "/"})

\* "<layer>/<zoom>/<x>/<y>.<format>"
KeyPath(layer, m) ==
  layer \o "/" \o ToString(m.z) \o "/" \o ToString(m.x) \o "/" \o ToString(m.y)
    \o "." \o m.format

\* "prefix/" for a prefix that is given and not empty.
KeyPrefix(prefix) == IF prefix = None \/ prefix = Some("") THEN "" ELSE prefix[1] \o "/"

\* C16: the key is [prefix/][hash/]<layer>/<zoom>/<x>/<y>.<format> without a
\* leading separator; with includeHash it is the key without the hash with
\* one more segment of 5 characters before the layer; an empty or absent
\* prefix adds no segment.
C16_KeyComposition ==
  call.done =>
    LET plain == compute_key(call.prefix, call.layer, call.meta_tile, FALSE)
        path == KeyPath(call.layer, call.meta_tile)
        pre == KeyPrefix(call.prefix)
        key == call.key
    IN /\ SubSeq(key, 1, 1) # "/"
       /\ SubSeq(key, 1, Len(pre)) = pre
       /\ SubSeq(key, Len(key) - Len(path) + 1, Len(key)) = path
       /\ plain = pre \o path
       /\ ~call.include_hash => key = plain
       /\ call.include_hash
            => /\ Len(key) = Len(plain) + 6
               /\ Segments(key) = Segments(plain) + 1
               /\ SubSeq(key, Len(pre) + 6, Len(pre) + 6) = "/"
               /\ Segments(SubSeq(key, Len(pre) + 1, Len(pre) + 5)) = 1
               /\ SubSeq(key, Len(pre) + 7, Len(key)) = path
       /\ pre = ""
            => Segments(key) = IF call.include_hash THEN 5 ELSE 4

C16_Witness ==
  /\ call.done
  /\ call.prefix = Some("a/b") /\ call.include_hash
  /\ call.layer = "all" /\ call.meta_tile = TileRequest(2, 1, 11, "zip")
  /\ call.key = "a/b/0cc17/all/2/1/11.zip"

\* C17: the handler answers each kind of failure with its status: not
\* modified 304 with an empty body, metatile not found 404, tile not found in
\* the metatile 404, a failed fetch 500, and a configuration error raised for
\* the request (the sizes meta_and_offset rejects) 400.
C17_StatusOfEachFailure ==
  \A r \in Requests :
    pc[r] = "done" =>
      /\ outcome[r].exc = "MetatileNotModifiedException"
           => outcome[r].status = 304 /\ outcome[r].text = ""
      /\ outcome[r].exc = "MetatileNotFoundException" => outcome[r].status = 404
      /\ outcome[r].exc = "TileNotFoundInMetatile" => outcome[r].status = 404
      /\ outcome[r].exc = "UnknownMetatileException" => outcome[r].status = 500
      /\ outcome[r].raised_by = "meta_and_offset" => outcome[r].status = 400

\* C18: a request that missed the cache and whose fetch succeeded has stored
\* the fetched object under the metatile's coordinate before extraction, and
\* goes on to extraction with that object, whatever the object's size; no
\* request fetches more than once.
C18_StoredThenExtracted ==
  \A r \in Requests :
    /\ obs[r].fetches <= 1
    /\ (obs[r].response # None /\ pc[r] \in {"extract", "done"})
         => /\ obs[r].touched
            /\ local[r].meta[1] \in CacheKeys(lfu)
            /\ lfu[IndexOf(lfu, local[r].meta[1])].value = ResultOf(obs[r].response[1])
            /\ local[r].metatile_data = Some(ResultOf(obs[r].response[1]))
            /\ pc[r] = "done" => obs[r].extracted

\* C19: a request whose fetch succeeded and whose extraction failed with
\* TileNotFoundInMetatile leaves the fetched metatile in the cache, and a
\* request whose metatile is in the cache fetches nothing.
C19_CachedDespiteMissingTile ==
  \A r \in Requests :
    /\ (pc[r] = "done" /\ outcome[r].exc = "TileNotFoundInMetatile" /\ ~obs[r].hit)
         => /\ obs[r].fetches = 1
            /\ local[r].meta[1] \in CacheKeys(lfu)
            /\ lfu[IndexOf(lfu, local[r].meta[1])].value = local[r].metatile_data[1]
    /\ obs[r].present => obs[r].hit /\ obs[r].fetches = 0

C19_Witness ==
  \E r \in Requests :
    /\ pc[r] = "done" /\ outcome[r].exc = "TileNotFoundInMetatile"
    /\ ~obs[r].hit /\ obs[r].fetches = 1
    /\ local[r].metatile_data[1].data = "sparse"
    /\ \E i \in 1..Len(lfu) :
         lfu[i].key = local[r].meta[1] /\ lfu[i].value.data = "sparse"

\* C20: with valid sizes and maxDetailZoom unset or not negative, the
\* metatile coordinate returned is well-formed: its zoom is not negative, its
\* x lies in 0 .. 2^zoom - 1 when the requested x is below 2^(requested zoom),
\* likewise its y, and its format is "zip"; also where the clamp applies.
C20_MetaWellFormed ==
  (CallValid /\ (CallMdz = None \/ CallMdz[1] >= 0))
    => /\ call.result.exc = "none"
       /\ call.result.meta # None
       /\ CallMeta.z >= 0
       /\ CallMeta.z <= call.tile.z
       /\ call.tile.x < Pow2(call.tile.z)
            => CallMeta.x >= 0 /\ CallMeta.x < Pow2(CallMeta.z)
       /\ call.tile.y < Pow2(call.tile.z)
            => CallMeta.y >= 0 /\ CallMeta.y < Pow2(CallMeta.z)
       /\ CallMeta.format = "zip"

C20_Witness ==
  /\ CallValid
  /\ CallMdz = Some(1)
  /\ call.tile.z - CallD > 1
  /\ call.tile.x < Pow2(call.tile.z) /\ call.tile.y < Pow2(call.tile.z)
  /\ config.METATILE_SIZE = 8 /\ call.tile_size = 8
  /\ CallMeta = TileRequest(1, 1, 0, "zip")

====
